---- MODULE Spec2Model ----
(***************************************************************************)
(* Model of the puzzle-to-training-set pipeline of fenpreprocessing.py:    *)
(* fen_to_array (board encoder), puzzle_cleaning / single_move (puzzle     *)
(* advancer), possible_moves (move expander) and make_converted_file       *)
(* (streaming converter).                                                  *)
(*                                                                         *)
(* Python strings are modelled as sequences of one-character strings, so   *)
(* that splitting, indexing and length are computed, not assumed.          *)
(***************************************************************************)
EXTENDS Integers, Sequences, FiniteSets, TLC

VARIABLES
    fen,        \* encoder harness: the argument handed to fen_to_array
    encoded     \* encoder harness: what fen_to_array returned or raised

\* ------------------------------------------------------------------------
\* Python values
\* ------------------------------------------------------------------------

\* A call either returns a value or raises an exception of some class.
Return(v) == [kind |-> "ok", value |-> v]
Raise(e) == [kind |-> e]

NotRun == [kind |-> "not_run"]

\* str.split() with no argument splits on runs of whitespace.
Whitespace == {" "}

RECURSIVE SplitWs(_, _, _)
\* s: the characters left, cur: the token being read, acc: the tokens read
SplitWs(s, cur, acc) ==
    IF s = <<>>
    THEN IF cur = <<>> THEN acc ELSE Append(acc, cur)
    ELSE IF Head(s) \in Whitespace
         THEN SplitWs(Tail(s), <<>>, IF cur = <<>> THEN acc ELSE Append(acc, cur))
         ELSE SplitWs(Tail(s), Append(cur, Head(s)), acc)

split(s) == SplitWs(s, <<>>, <<>>)

RECURSIVE SplitSep(_, _, _, _)
\* str.split(sep): every separator ends a field, empty fields are kept
SplitSep(s, sep, cur, acc) ==
    IF s = <<>>
    THEN Append(acc, cur)
    ELSE IF Head(s) = sep
         THEN SplitSep(Tail(s), sep, <<>>, Append(acc, cur))
         ELSE SplitSep(Tail(s), sep, Append(cur, Head(s)), acc)

split_on(s, sep) == SplitSep(s, sep, <<>>, <<>>)

\* ------------------------------------------------------------------------
\* fen_to_array
\* ------------------------------------------------------------------------

Squares == 64
Classes == 13
ArrayLen == 832

\* int(char) for the characters of '12345678'
DigitValue ==
    [c \in {"1", "2", "3", "4", "5", "6", "7", "8"} |->
        CASE c = "1" -> 1 [] c = "2" -> 2 [] c = "3" -> 3 [] c = "4" -> 4
          [] c = "5" -> 5 [] c = "6" -> 6 [] c = "7" -> 7 [] c = "8" -> 8]

RECURSIVE Repeat(_, _)
\* c * n
Repeat(c, n) == IF n <= 0 THEN <<>> ELSE <<c>> \o Repeat(c, n - 1)

\* addon = char if char not in '12345678' else '0' * int(char)
addon(char) == IF char \notin DOMAIN DigitValue THEN <<char>> ELSE Repeat("0", DigitValue[char])

RECURSIVE RowString(_, _)
\* for char in row: board_string += addon
RowString(row, board_string) ==
    IF row = <<>> THEN board_string
    ELSE RowString(Tail(row), board_string \o addon(Head(row)))

RECURSIVE RowsString(_, _)
\* for row in ...split('/')
RowsString(rows, board_string) ==
    IF rows = <<>> THEN board_string
    ELSE RowsString(Tail(rows), RowString(Head(rows), board_string))

\* the expansion of the placement field
BoardString(placement) == RowsString(split_on(placement, "/"), <<>>)

\* Maps a FEN character to an index
piece_dict ==
    [c \in {"0", "P", "N", "B", "R", "Q", "K", "p", "n", "b", "r", "q", "k"} |->
        CASE c = "0" -> 0
          [] c = "P" -> 1 [] c = "N" -> 2 [] c = "B" -> 3
          [] c = "R" -> 4 [] c = "Q" -> 5 [] c = "K" -> 6
          [] c = "p" -> 7 [] c = "n" -> 8 [] c = "b" -> 9
          [] c = "r" -> 10 [] c = "q" -> 11 [] c = "k" -> 12]

\* np.zeros(832); slot k of the Python array is element k + 1 here
Zeros == [k \in 1..ArrayLen |-> 0]

\* a block stride of 12: the blocks of neighbouring squares overlap
SlotIndexStride12(sq, cls) == 12 * sq + cls

\* the slot of square sq (0-based) that is set for class cls (0-based slot index)
SlotIndex(sq, cls) == Classes * sq + cls

\* for _ in range(64): board_array[13 * _ + piece_dict[board_string[_]]] = 1
\* The array after the loop: the slots the 64 assignments set hold 1, the others
\* are untouched. A character that is no key of piece_dict raises KeyError.
FillArray(board_string, board_array) ==
    IF \E sq \in 0..(Squares - 1) : board_string[sq + 1] \notin DOMAIN piece_dict
    THEN Raise("KeyError")
    ELSE LET assigned == {SlotIndex(sq, piece_dict[board_string[sq + 1]]) + 1 :
                             sq \in 0..(Squares - 1)}
         IN  Return([k \in DOMAIN board_array |-> IF k \in assigned THEN 1 ELSE board_array[k]])

\* only too short a board string is refused
LengthAtLeast(board_string) == Len(board_string) >= Squares

\* len(board_string) != 64 raises ValueError
LengthOk(board_string) == Len(board_string) = Squares

fen_to_array(f) ==
    LET fields == split(f) IN
    IF fields = <<>>
    THEN Raise("IndexError")    \* fen.split()[0] on a blank string
    ELSE LET board_string == BoardString(fields[1]) IN
         IF ~LengthOk(board_string)
         THEN Raise("ValueError")
         ELSE FillArray(board_string, Zeros)

\* ------------------------------------------------------------------------
\* The rules engine (the chess library), tabulated for a few positions
\* ------------------------------------------------------------------------

\* "7k/8/8/8/8/8/8/K7 w - - 0 1"
StartKings ==
    <<"7", "k", "/", "8", "/", "8", "/", "8", "/", "8", "/", "8", "/", "8", "/", "K", "7", " ",
      "w", " ", "-", " ", "-", " ", "0", " ", "1">>

\* "7k/8/8/8/8/8/K7/8 b - - 1 1"
KingsBlack ==
    <<"7", "k", "/", "8", "/", "8", "/", "8", "/", "8", "/", "8", "/", "K", "7", "/", "8", " ",
      "b", " ", "-", " ", "-", " ", "1", " ", "1">>

\* "7k/8/8/8/8/8/8/1K6 b - - 1 1"
KingsBlackB1 ==
    <<"7", "k", "/", "8", "/", "8", "/", "8", "/", "8", "/", "8", "/", "8", "/", "1", "K", "6",
      " ", "b", " ", "-", " ", "-", " ", "1", " ", "1">>

\* "7k/8/8/8/8/8/1K6/8 b - - 1 1"
KingsBlackB2 ==
    <<"7", "k", "/", "8", "/", "8", "/", "8", "/", "8", "/", "8", "/", "1", "K", "6", "/", "8",
      " ", "b", " ", "-", " ", "-", " ", "1", " ", "1">>

\* "6k1/8/8/8/8/8/K7/8 w - - 2 2"
ReplyG8 ==
    <<"6", "k", "1", "/", "8", "/", "8", "/", "8", "/", "8", "/", "8", "/", "K", "7", "/", "8",
      " ", "w", " ", "-", " ", "-", " ", "2", " ", "2">>

\* "8/7k/8/8/8/8/K7/8 w - - 2 2"
ReplyH7 ==
    <<"8", "/", "7", "k", "/", "8", "/", "8", "/", "8", "/", "8", "/", "K", "7", "/", "8", " ",
      "w", " ", "-", " ", "-", " ", "2", " ", "2">>

\* "8/6k1/8/8/8/8/K7/8 w - - 2 2"
ReplyG7 ==
    <<"8", "/", "6", "k", "1", "/", "8", "/", "8", "/", "8", "/", "8", "/", "K", "7", "/", "8",
      " ", "w", " ", "-", " ", "-", " ", "2", " ", "2">>

\* "7k/8/6KP/8/8/8/8/8 w - - 0 1"
StartPawn ==
    <<"7", "k", "/", "8", "/", "6", "K", "P", "/", "8", "/", "8", "/", "8", "/", "8", "/", "8",
      " ", "w", " ", "-", " ", "-", " ", "0", " ", "1">>

\* "7k/7P/6K1/8/8/8/8/8 b - - 0 1"
Stalemate ==
    <<"7", "k", "/", "7", "P", "/", "6", "K", "1", "/", "8", "/", "8", "/", "8", "/", "8", "/",
      "8", " ", "b", " ", "-", " ", "-", " ", "0", " ", "1">>

\* "7k/8/7P/5K2/8/8/8/8 b - - 1 1"
PawnF5 ==
    <<"7", "k", "/", "8", "/", "7", "P", "/", "5", "K", "2", "/", "8", "/", "8", "/", "8", "/",
      "8", " ", "b", " ", "-", " ", "-", " ", "1", " ", "1">>

\* "7k/8/7P/6K1/8/8/8/8 b - - 1 1"
PawnG5 ==
    <<"7", "k", "/", "8", "/", "7", "P", "/", "6", "K", "1", "/", "8", "/", "8", "/", "8", "/",
      "8", " ", "b", " ", "-", " ", "-", " ", "1", " ", "1">>

\* "7k/8/7P/7K/8/8/8/8 b - - 1 1"
PawnH5 ==
    <<"7", "k", "/", "8", "/", "7", "P", "/", "7", "K", "/", "8", "/", "8", "/", "8", "/", "8",
      " ", "b", " ", "-", " ", "-", " ", "1", " ", "1">>

\* "7k/8/5K1P/8/8/8/8/8 b - - 1 1"
PawnF6 ==
    <<"7", "k", "/", "8", "/", "5", "K", "1", "P", "/", "8", "/", "8", "/", "8", "/", "8", "/",
      "8", " ", "b", " ", "-", " ", "-", " ", "1", " ", "1">>

\* "7k/5K2/7P/8/8/8/8/8 b - - 1 1"
PawnF7 ==
    <<"7", "k", "/", "5", "K", "2", "/", "7", "P", "/", "8", "/", "8", "/", "8", "/", "8", "/",
      "8", " ", "b", " ", "-", " ", "-", " ", "1", " ", "1">>

\* "not a fen"
NotAFen ==
    <<"n", "o", "t", " ", "a", " ", "f", "e", "n">>

\* move strings
Uci(a, b, c, d) == <<a, b, c, d>>

a1a2 == Uci("a", "1", "a", "2")
a1b1 == Uci("a", "1", "b", "1")
a1b2 == Uci("a", "1", "b", "2")
a1a3 == Uci("a", "1", "a", "3")
h8g8 == Uci("h", "8", "g", "8")
h8h7 == Uci("h", "8", "h", "7")
h8g7 == Uci("h", "8", "g", "7")
g6f5 == Uci("g", "6", "f", "5")
g6g5 == Uci("g", "6", "g", "5")
g6h5 == Uci("g", "6", "h", "5")
g6f6 == Uci("g", "6", "f", "6")
g6f7 == Uci("g", "6", "f", "7")
h6h7 == Uci("h", "6", "h", "7")
NullUci == Uci("0", "0", "0", "0")
BadUci == <<"z", "z">>

None == "None"

FileIndex ==
    [c \in {"a", "b", "c", "d", "e", "f", "g", "h"} |->
        CASE c = "a" -> 0 [] c = "b" -> 1 [] c = "c" -> 2 [] c = "d" -> 3
          [] c = "e" -> 4 [] c = "f" -> 5 [] c = "g" -> 6 [] c = "h" -> 7]

\* PIECE_SYMBOLS.index(c)
PieceSymbolIndex ==
    [c \in {"p", "n", "b", "r", "q", "k"} |->
        CASE c = "p" -> 1 [] c = "n" -> 2 [] c = "b" -> 3
          [] c = "r" -> 4 [] c = "q" -> 5 [] c = "k" -> 6]

\* SQUARE_NAMES.index(name): a1 = 0, b1 = 1, ..., h8 = 63; -1 stands for ValueError
SquareIndex(f, r) ==
    IF f \in DOMAIN FileIndex /\ r \in DOMAIN DigitValue
    THEN 8 * (DigitValue[r] - 1) + FileIndex[f]
    ELSE -1

\* no promotion, no drop: PIECE_SYMBOLS[0] is None
NoPiece == 0

Move(from, to, promotion, drop) ==
    [from_square |-> from, to_square |-> to, promotion |-> promotion, drop |-> drop]

\* uci[0].lower() for the piece letters
Lower ==
    [c \in {"P", "N", "B", "R", "Q", "K", "p", "n", "b", "r", "q", "k"} |->
        CASE c \in {"P", "p"} -> "p" [] c \in {"N", "n"} -> "n" [] c \in {"B", "b"} -> "b"
          [] c \in {"R", "r"} -> "r" [] c \in {"Q", "q"} -> "q" [] c \in {"K", "k"} -> "k"]

\* chess.Move.from_uci(uci): a move, or ValueError (InvalidMoveError) for a string
\* that is no move notation: "0000" is the null move, "Q@e4" a drop, otherwise two
\* different squares and, as a fifth character, a promotion piece.
from_uci(uci) ==
    IF uci = NullUci THEN Return(Move(0, 0, NoPiece, NoPiece))
    ELSE IF Len(uci) = 4 /\ uci[2] = "@"
    THEN LET square == SquareIndex(uci[3], uci[4]) IN
         IF uci[1] \notin DOMAIN Lower \/ square = -1 THEN Raise("ValueError")
         ELSE Return(Move(square, square, NoPiece, PieceSymbolIndex[Lower[uci[1]]]))
    ELSE IF Len(uci) \in {4, 5}
    THEN LET from == SquareIndex(uci[1], uci[2])
             to == SquareIndex(uci[3], uci[4])
         IN  IF from = -1 \/ to = -1 THEN Raise("ValueError")
             ELSE IF Len(uci) = 5 /\ uci[5] \notin DOMAIN PieceSymbolIndex THEN Raise("ValueError")
             ELSE IF from = to THEN Raise("ValueError")
             ELSE Return(Move(from, to,
                              IF Len(uci) = 5 THEN PieceSymbolIndex[uci[5]] ELSE NoPiece, NoPiece))
    ELSE Raise("ValueError")

\* Move.uci() of a tabulated move: the table keeps moves by their notation
MoveOf(uci) == from_uci(uci).value

\* The positions whose legal moves the model tabulates: for each, the legal
\* moves in the engine's enumeration order and the FEN after each.
Engine ==
    (StartKings :> [moves |-> <<a1a2, a1b1, a1b2>>,
                    after |-> <<KingsBlack, KingsBlackB1, KingsBlackB2>>])
 @@ (KingsBlack :> [moves |-> <<h8g8, h8h7, h8g7>>,
                    after |-> <<ReplyG8, ReplyH7, ReplyG7>>])
 @@ (StartPawn  :> [moves |-> <<g6f5, g6g5, g6h5, g6f6, g6f7, h6h7>>,
                    after |-> <<PawnF5, PawnG5, PawnH5, PawnF6, PawnF7, Stalemate>>])
 @@ (Stalemate  :> [moves |-> <<>>, after |-> <<>>])

\* chess.Board(fen): ValueError for a string that is no FEN
Board(f) == IF f \in DOMAIN Engine THEN Return(f) ELSE Raise("ValueError")

\* board.legal_moves, as Move objects in enumeration order
legal_moves(board) == [k \in 1..Len(Engine[board].moves) |-> MoveOf(Engine[board].moves[k])]

\* move.uci()
uci_of(board, k) == Engine[board].moves[k]

\* board.push_uci(uci): parses the move, raises ValueError unless it is legal,
\* and returns the board after it (board.fen() of the result)
push_uci(board, uci) ==
    LET parsed == from_uci(uci) IN
    IF parsed.kind # "ok" THEN parsed
    ELSE IF \E k \in 1..Len(Engine[board].moves) : legal_moves(board)[k] = parsed.value
         THEN Return(Engine[board].after[
                  CHOOSE k \in 1..Len(Engine[board].moves) : legal_moves(board)[k] = parsed.value])
         ELSE Raise("ValueError")

\* ------------------------------------------------------------------------
\* possible_moves
\* ------------------------------------------------------------------------

\* fen_series.FEN, fen_series.target_move: AttributeError for a missing column
HasColumns(series, cols) == cols \subseteq DOMAIN series

\* fen_to_array over the positions the tabulated moves lead to, computed once
\* (fen_to_array is a pure function; the table only saves recomputing it)
EncodedAfter ==
    [f \in UNION {{Engine[p].after[k] : k \in 1..Len(Engine[p].after)} : p \in DOMAIN Engine} |->
        fen_to_array(f)]

\* the label compares the squares the moves start from only
target_val_from_square(move, target) == IF move.from_square = target.from_square THEN 1 ELSE 0

\* the label is inverted
target_val_inverted(move, target) == IF move # target THEN 1 ELSE 0

\* target_val = 1. if move == chess.Move.from_uci(target) else 0.
target_val(move, target) == IF move = target THEN 1 ELSE 0

RECURSIVE MovesLoop(_, _, _, _)
\* for move in board.legal_moves: ... array_list.append(...)
MovesLoop(board, target, k, array_list) ==
    IF k > Len(Engine[board].moves) THEN Return(array_list)
    ELSE LET move == legal_moves(board)[k]
             pushed == push_uci(board, uci_of(board, k))
         IN  IF pushed.kind # "ok" THEN pushed
             ELSE LET candidate_fen == pushed.value
                      parsed == from_uci(target)
                  IN  IF parsed.kind # "ok" THEN parsed
                      ELSE LET label == target_val(move, parsed.value)
                               arr == EncodedAfter[candidate_fen]    \* fen_to_array(candidate_fen)
                           IN  IF arr.kind # "ok" THEN arr
                               ELSE MovesLoop(board, target, k + 1,
                                        Append(array_list,
                                               [Position |-> arr.value, Target |-> label]))

\* the target is parsed once, before the loop over the legal moves
possible_moves_parse_first(fen_series) ==
    IF ~HasColumns(fen_series, {"FEN", "target_move"}) THEN Raise("AttributeError")
    ELSE LET board == Board(fen_series.FEN)
             parsed == from_uci(fen_series.target_move)
         IN  IF board.kind # "ok" THEN board
             ELSE IF parsed.kind # "ok" THEN parsed
             ELSE MovesLoop(board.value, fen_series.target_move, 1, <<>>)

\* the DataFrame returned: its rows, with columns Position and Target
possible_moves(fen_series) ==
    IF ~HasColumns(fen_series, {"FEN", "target_move"}) THEN Raise("AttributeError")
    ELSE LET start_fen == fen_series.FEN
             target == fen_series.target_move
             board == Board(start_fen)
         IN  IF board.kind # "ok" THEN board
             ELSE MovesLoop(board.value, target, 1, <<>>)

\* ------------------------------------------------------------------------
\* puzzle_cleaning, single_move
\* ------------------------------------------------------------------------

\* the first move is checked but the FEN returned is the one given
single_move_unpushed(game_series) ==
    LET board == Board(game_series.FEN) IN
    IF board.kind # "ok" THEN board
    ELSE LET tokens == split(game_series.Moves) IN
         IF tokens = <<>> THEN Raise("IndexError")
         ELSE IF push_uci(board.value, tokens[1]).kind # "ok"
              THEN push_uci(board.value, tokens[1])
              ELSE board

\* Advances game fen by one move
single_move(game_series) ==
    LET board == Board(game_series.FEN) IN
    IF board.kind # "ok" THEN board
    ELSE LET tokens == split(game_series.Moves) IN
         IF tokens = <<>> THEN Raise("IndexError")
         ELSE push_uci(board.value, tokens[1])

\* lambda move_string: move_string.split()[1]
second_move(move_string) ==
    LET tokens == split(move_string) IN
    IF Len(tokens) < 2 THEN Raise("IndexError") ELSE Return(tokens[2])

\* the first exception of a column of results, or the column of values
Column(results) ==
    IF \E k \in 1..Len(results) : results[k].kind # "ok"
    THEN results[CHOOSE k \in 1..Len(results) :
                    /\ results[k].kind # "ok"
                    /\ \A j \in 1..(k - 1) : results[j].kind = "ok"]
    ELSE Return([k \in 1..Len(results) |-> results[k].value])

\* new_df['FEN'] is computed for every row, then new_df['target_move']
puzzle_cleaning(puzzle_df) ==
    LET fens == Column([k \in 1..Len(puzzle_df) |-> single_move(puzzle_df[k])]) IN
    IF fens.kind # "ok" THEN fens
    ELSE LET targets == Column([k \in 1..Len(puzzle_df) |-> second_move(puzzle_df[k].Moves)]) IN
         IF targets.kind # "ok" THEN targets
         ELSE Return([k \in 1..Len(puzzle_df) |->
                         [FEN |-> fens.value[k], target_move |-> targets.value[k]]])

\* ------------------------------------------------------------------------
\* make_converted_file
\* ------------------------------------------------------------------------

VARIABLES
    puzzle_df,  \* the puzzle records the input file was made from (<<>> if none)
    infile,     \* the records of the csv handed to make_converted_file
    outfile,    \* the lines of the output csv, or NoFile
    out_cols,   \* the out_cols argument, resolved
    i,          \* index of the chunk being processed
    chunk,      \* the records of that chunk
    chunk_df,   \* the frames possible_moves returned for the chunk's records so far
    pc,         \* "start", "clean_failed", "read", "apply", "done", "failed", "idle"
    error       \* the exception that ended the run, or None

vars == <<fen, encoded, puzzle_df, infile, outfile, out_cols, i, chunk, chunk_df, pc, error>>

\* records per chunk: read_csv(..., chunksize=100), scaled down so that files of a
\* few records span several chunks
ChunkSize == 2
\* longest input file
MaxRecords == 4

\* a file that does not exist, and a file holding the given lines
NoFile == [exists |-> FALSE, lines |-> <<>>]
File(lines) == [exists |-> TRUE, lines |-> lines]
HeaderLine(names) == [tag |-> "header", names |-> names]
DataLine(cells) == [tag |-> "row", cells |-> cells]
StaleFile == File(<< [tag |-> "stale", text |-> "left over"] >>)

DefaultCols == <<"Position", "Target">>

RECURSIVE FlattenReversed(_)
\* the frames are stacked last first
FlattenReversed(frames) ==
    IF frames = <<>> THEN <<>> ELSE FlattenReversed(Tail(frames)) \o Head(frames)

RECURSIVE Flatten(_)
\* pd.concat(frames, ignore_index=True): the rows of the frames, in order
Flatten(frames) == IF frames = <<>> THEN <<>> ELSE Head(frames) \o Flatten(Tail(frames))

\* pd.concat raises ValueError("No objects to concatenate") for no frames
concat(frames) == IF frames = <<>> THEN Raise("ValueError") ELSE Return(Flatten(frames))

\* the lines DataFrame.to_csv emits: the header line if asked, then one line per
\* row holding the named columns in the order given
CsvLines(frame, columns, header) ==
    (IF header THEN <<HeaderLine(columns)>> ELSE <<>>)
    \o [k \in 1..Len(frame) |-> DataLine([c \in 1..Len(columns) |-> frame[k][columns[c]]])]

\* mode 'w' truncates or creates the file, mode 'a' appends to it or creates it
to_csv(old, frame, columns, header, mode) ==
    IF mode = "w" \/ ~old.exists
    THEN File(CsvLines(frame, columns, header))
    ELSE File(old.lines \o CsvLines(frame, columns, header))

\* every chunk is written with its header
HeaderAlways(idx) == TRUE

\* header = i == 0
HeaderFlag(idx) == idx = 0
\* every chunk is written with mode 'w'
ModeAlwaysW(idx) == "w"

\* mode = 'w' if i == 0 else 'a'
Mode(idx) == IF idx = 0 THEN "w" ELSE "a"

\* The chunks read_csv(..., chunksize) yields: full chunks, then what is left.
\* A file with no data rows still yields one chunk, which is empty.
NumChunks(file) ==
    IF Len(file) = 0 THEN 1 ELSE (Len(file) + ChunkSize - 1) \div ChunkSize

ChunkOf(file, idx) ==
    SubSeq(file, idx * ChunkSize + 1,
           IF (idx + 1) * ChunkSize < Len(file) THEN (idx + 1) * ChunkSize ELSE Len(file))

\* ---- inputs --------------------------------------------------------------

BothMoves == a1a2 \o <<" ">> \o h8g8

PuzzleRecords ==
    { [FEN |-> StartKings, Moves |-> BothMoves],                     \* reply h8g8 expected
      [FEN |-> StartPawn,  Moves |-> h6h7 \o <<" ">> \o h8g8],       \* setup move stalemates
      [FEN |-> StartKings, Moves |-> a1a3 \o <<" ">> \o h8g8],       \* setup move illegal
      [FEN |-> StartKings, Moves |-> a1a2] }                         \* no second move

CleanedRecords ==
    { [FEN |-> KingsBlack, target_move |-> h8g7],      \* the last legal reply
      [FEN |-> KingsBlack, target_move |-> a1a2],      \* a move, not legal here
      [FEN |-> KingsBlack, target_move |-> BadUci],    \* no move notation
      [FEN |-> Stalemate,  target_move |-> BadUci],    \* no legal moves
      [FEN |-> NotAFen,    target_move |-> h8g8] }     \* no position

RECURSIVE SeqsUpTo(_, _)
\* the sequences over S of length at most n
SeqsUpTo(S, n) ==
    IF n = 0 THEN {<<>>}
    ELSE LET shorter == SeqsUpTo(S, n - 1) IN
         shorter \cup {Append(s, x) : s \in {t \in shorter : Len(t) = n - 1}, x \in S}

\* out_cols arguments other than None
OutColsArgs == { <<"Target", "Position">> }

Idle ==
    /\ puzzle_df = <<>> /\ infile = <<>> /\ outfile = NoFile /\ out_cols = <<>>
    /\ i = 0 /\ chunk = <<>> /\ chunk_df = <<>> /\ pc = "idle" /\ error = None

Init ==
    /\ fen = <<>> /\ encoded = NotRun
    /\ \/ /\ puzzle_df = <<>>
          /\ infile \in SeqsUpTo(CleanedRecords, MaxRecords)
       \/ /\ puzzle_df \in SeqsUpTo(PuzzleRecords, MaxRecords) \ {<<>>}
          /\ infile = puzzle_df
    /\ outfile \in {NoFile, StaleFile}
    /\ out_cols = <<>>
    /\ i = 0 /\ chunk = <<>> /\ chunk_df = <<>>
    /\ pc = "start" /\ error = None

\* ---- steps ---------------------------------------------------------------

\* the input file is written from puzzle_cleaning(puzzle_df)
PuzzleCleaning ==
    /\ pc = "start"
    /\ puzzle_df # <<>>
    /\ infile = puzzle_df
    /\ LET new_df == puzzle_cleaning(puzzle_df) IN
       IF new_df.kind = "ok"
       THEN /\ infile' = new_df.value
            /\ UNCHANGED <<pc, error>>
       ELSE /\ pc' = "clean_failed"
            /\ error' = new_df.kind
            /\ UNCHANGED infile
    /\ UNCHANGED <<fen, encoded, puzzle_df, outfile, out_cols, i, chunk, chunk_df>>

\* make_converted_file is called: out_cols defaults to ['Position', 'Target']
Begin ==
    /\ pc = "start"
    /\ \/ out_cols' = DefaultCols                    \* out_cols is None
       \/ \E arg \in OutColsArgs : out_cols' = arg
    /\ pc' = "read"
    /\ UNCHANGED <<fen, encoded, puzzle_df, infile, outfile, i, chunk, chunk_df, error>>

\* the loop takes the next chunk, or ends
ReadChunk ==
    /\ pc = "read"
    /\ IF i < NumChunks(infile)
       THEN /\ chunk' = ChunkOf(infile, i)
            /\ chunk_df' = <<>>
            /\ pc' = "apply"
       ELSE /\ pc' = "done"
            /\ UNCHANGED <<chunk, chunk_df>>
    /\ UNCHANGED <<fen, encoded, puzzle_df, infile, outfile, out_cols, i, error>>

\* apply(possible_moves, axis=1) reaches the next record of the chunk
ApplyRecord ==
    /\ pc = "apply"
    /\ Len(chunk_df) < Len(chunk)
    /\ LET frame == possible_moves(chunk[Len(chunk_df) + 1]) IN
       IF frame.kind = "ok"
       THEN /\ chunk_df' = Append(chunk_df, frame.value)
            /\ UNCHANGED <<pc, error>>
       ELSE /\ pc' = "failed"
            /\ error' = frame.kind
            /\ UNCHANGED chunk_df
    /\ UNCHANGED <<fen, encoded, puzzle_df, infile, outfile, out_cols, i, chunk>>

\* the chunk's frames are concatenated and written
WriteChunk ==
    /\ pc = "apply"
    /\ Len(chunk_df) = Len(chunk)
    /\ LET restacked_df == concat(chunk_df) IN
       IF restacked_df.kind = "ok"
       THEN /\ outfile' = to_csv(outfile, restacked_df.value, out_cols, HeaderFlag(i), Mode(i))
            /\ i' = i + 1
            /\ pc' = "read"
            /\ UNCHANGED error
       ELSE /\ pc' = "failed"
            /\ error' = restacked_df.kind
            /\ UNCHANGED <<outfile, i>>
    /\ UNCHANGED <<fen, encoded, puzzle_df, infile, out_cols, chunk, chunk_df>>

Next == PuzzleCleaning \/ Begin \/ ReadChunk \/ ApplyRecord \/ WriteChunk

Spec == Init /\ [][Next]_vars

\* ------------------------------------------------------------------------
\* The encoder on its own: fen_to_array applied to one string
\* ------------------------------------------------------------------------

Str1(a) == <<a>>
Str2(a, b) == <<a, b>>
Str3(a, b, c) == <<a, b, c>>
Str8(a, b, c, d, e, f, g, h) == <<a, b, c, d, e, f, g, h>>

\* rank strings: well-formed ranks, ranks of the wrong width, ranks holding a
\* character that is no FEN symbol
EncodeRanks ==
    { Str1("8"), Str2("7", "k"), Str2("K", "7"), Str3("4", "P", "3"),
      Str2("4", "4"), <<"q", "2", "K", "3", "b">>,
      Str8("r", "n", "b", "q", "k", "b", "n", "r"),
      Str8("P", "P", "P", "P", "P", "P", "P", "P"),
      Str1("7"), Str2("8", "p"), <<>>, Str1("9"),
      Str2("7", "x"), Str3("3", "?", "4"), Str2("7", "0"),
      Str8("0", "p", "p", "p", "p", "p", "p", "p") }

EncodeBoards ==
    { << Str8("r", "n", "b", "q", "k", "b", "n", "r"), Str8("p", "p", "p", "p", "p", "p", "p", "p"),
         Str1("8"), Str1("8"), Str1("8"), Str1("8"),
         Str8("P", "P", "P", "P", "P", "P", "P", "P"), Str8("R", "N", "B", "Q", "K", "B", "N", "R") >>,
      << Str2("7", "k"), Str1("8"), Str1("8"), Str1("8"),
         Str1("8"), Str1("8"), Str1("8"), Str2("K", "7") >> }

\* what follows the placement field
EncodeTails ==
    { <<>>,
      <<" ", "w", " ", "K", "Q", "k", "q", " ", "-", " ", "0", " ", "1">>,
      <<" ", "b", " ", "-", " ", "-", " ", "3", " ", "9">> }

RECURSIVE JoinRanks(_)
\* '/'.join(ranks)
JoinRanks(ranks) ==
    IF Len(ranks) = 0 THEN <<>>
    ELSE IF Len(ranks) = 1 THEN ranks[1]
    ELSE ranks[1] \o <<"/">> \o JoinRanks(Tail(ranks))

EncodeInputs ==
    { JoinRanks([board EXCEPT ![k] = rank]) \o tail :
        board \in EncodeBoards, k \in 1..8, rank \in EncodeRanks, tail \in EncodeTails }
    \cup { <<>>, <<" ">>, JoinRanks([k \in 1..8 |-> Str1("8")]),
           <<" ">> \o KingsBlack,
           Repeat("8", 8),
           JoinRanks(<< Str1("7"), Str2("8", "p"), Str1("8"), Str1("8"),
                        Str1("8"), Str1("8"), Str1("8"), Str1("8") >>) }

InitEncode ==
    /\ fen \in EncodeInputs
    /\ encoded = NotRun
    /\ Idle

\* fen_to_array(fen) is called
Encode ==
    /\ pc = "idle"
    /\ encoded = NotRun
    /\ encoded' = fen_to_array(fen)
    /\ UNCHANGED <<fen, puzzle_df, infile, outfile, out_cols, i, chunk, chunk_df, pc, error>>

NextEncode == Encode

SpecEncode == InitEncode /\ [][NextEncode]_vars

\* ------------------------------------------------------------------------
\* What the FEN notation says, stated without the encoder
\* ------------------------------------------------------------------------

FenDigits == {"1", "2", "3", "4", "5", "6", "7", "8"}
\* white pawn, knight, bishop, rook, queen, king, then the black pieces
PieceLetters == <<"P", "N", "B", "R", "Q", "K", "p", "n", "b", "r", "q", "k">>
PieceLetterSet == {PieceLetters[k] : k \in 1..Len(PieceLetters)}

\* class 0 is the empty square, classes 1..12 follow PieceLetters
ClassOfLetter(c) == CHOOSE k \in 1..Len(PieceLetters) : PieceLetters[k] = c

HasPlacement(f) == \E k \in 1..Len(f) : f[k] \notin Whitespace

\* the placement field: the characters from the first one that is no blank up to
\* the next blank
PlacementOf(f) ==
    LET first == CHOOSE k \in 1..Len(f) :
                    f[k] \notin Whitespace /\ \A j \in 1..(k - 1) : f[j] \in Whitespace
        ends == {k \in first..Len(f) : f[k] \in Whitespace}
        last == IF ends = {} THEN Len(f)
                ELSE (CHOOSE k \in ends : \A j \in ends : k <= j) - 1
    IN  SubSeq(f, first, last)

\* squares a character stands for
WidthOf(c) == IF c \in FenDigits THEN DigitValue[c] ELSE 1

RECURSIVE WidthSum(_)
\* squares a string of rank characters stands for, '/' standing for none
WidthSum(s) ==
    IF s = <<>> THEN 0
    ELSE (IF Head(s) = "/" THEN 0 ELSE WidthOf(Head(s))) + WidthSum(Tail(s))

ExpansionLength(f) == WidthSum(PlacementOf(f))

\* the ranks of a placement field
RanksOf(f) == split_on(PlacementOf(f), "/")

\* a placement of 8 ranks of 8 squares each, written with piece letters and digits
ValidPlacement(f) ==
    /\ HasPlacement(f)
    /\ Len(RanksOf(f)) = 8
    /\ \A r \in 1..8 :
          /\ \A k \in 1..Len(RanksOf(f)[r]) : RanksOf(f)[r][k] \in PieceLetterSet \cup FenDigits
          /\ WidthSum(RanksOf(f)[r]) = 8

RECURSIVE ClassAtFile(_, _)
\* the class of the square at 0-based file `file` of a rank string
ClassAtFile(rank, file) ==
    IF Head(rank) \in FenDigits
    THEN IF file < DigitValue[Head(rank)] THEN 0
         ELSE ClassAtFile(Tail(rank), file - DigitValue[Head(rank)])
    ELSE IF file = 0 THEN ClassOfLetter(Head(rank))
         ELSE ClassAtFile(Tail(rank), file - 1)

\* class(i) for square index i in 0..63, a8 first and h1 last
SquareClass(f, sq) == ClassAtFile(RanksOf(f)[(sq \div 8) + 1], sq % 8)

\* a character of the placement field that is no digit 1-8, no piece letter and
\* no rank separator
HasForeignSymbol(f) ==
    \E k \in 1..Len(PlacementOf(f)) :
        PlacementOf(f)[k] \notin PieceLetterSet \cup FenDigits \cup {"/"}

Encoded == encoded.kind # "not_run"

\* ------------------------------------------------------------------------
\* Claims about fen_to_array
\* ------------------------------------------------------------------------

\* C7: for every valid FEN placement fen_to_array returns a vector of length 832
\* in which, for each square i of 0..63, slot 13*i + class(i) is 1 and the other
\* 12 slots of block i are 0, so that every block sums to 1 and the vector to 64.
C7_OneHotPerSquare ==
    (Encoded /\ ValidPlacement(fen)) =>
        /\ encoded.kind = "ok"
        /\ DOMAIN encoded.value = 1..832
        /\ LET class == [sq \in 0..63 |-> SquareClass(fen, sq)] IN
           \A sq \in 0..63 : \A c \in 0..12 :
              encoded.value[13 * sq + c + 1] = (IF c = class[sq] THEN 1 ELSE 0)
        /\ \A sq \in 0..63 :
              Cardinality({c \in 0..12 : encoded.value[13 * sq + c + 1] # 0}) = 1
        /\ Cardinality({k \in 1..832 : encoded.value[k] = 1}) = 64
        /\ \A k \in 1..832 : encoded.value[k] \in {0, 1}

\* a valid placement with a black queen, a white king and empty squares was encoded
C7_Witness ==
    /\ Encoded /\ ValidPlacement(fen) /\ encoded.kind = "ok"
    /\ \E sq \in 0..63 : SquareClass(fen, sq) = 11
    /\ \E sq \in 0..63 : SquareClass(fen, sq) = 6
    /\ \E sq \in 0..63 : SquareClass(fen, sq) = 0

\* C8 as claimed: a placement field that expands to 64 characters and holds a
\* character that is neither a digit 1-8 nor a piece letter makes fen_to_array
\* fail on that character (KeyError) and return no vector.
C8_ForeignSymbolRejected ==
    (Encoded /\ HasPlacement(fen) /\ ExpansionLength(fen) = 64 /\ HasForeignSymbol(fen)) =>
        encoded.kind = "KeyError"

\* C9: fen_to_array fails on the board length (ValueError) exactly when the
\* placement field expands to a length other than 64; in particular it returns a
\* vector only when the expansion has exactly 64 characters.
C9_LengthChecked ==
    (Encoded /\ HasPlacement(fen)) =>
        /\ (ExpansionLength(fen) # 64) <=> (encoded.kind = "ValueError")
        /\ encoded.kind = "ok" => ExpansionLength(fen) = 64

\* a placement with one stray extra square (65 characters) was refused
C9_Witness ==
    /\ Encoded /\ HasPlacement(fen)
    /\ ExpansionLength(fen) = 65
    /\ encoded.kind = "ValueError"

\* ------------------------------------------------------------------------
\* What the claims about the pipeline speak of
\* ------------------------------------------------------------------------

\* the record is a position the engine accepts
IsPosition(rec) == rec.FEN \in DOMAIN Engine

\* the legal moves of the record's position, in notation
LegalUcis(rec) == Engine[rec.FEN].moves

TargetIsLegal(rec) == \E m \in 1..Len(LegalUcis(rec)) : LegalUcis(rec)[m] = rec.target_move

\* the target is move notation at all
IsMoveNotation(t) == from_uci(t).kind = "ok"

\* the rows the expander owes for an advanced position and a target
ExpectedFrame(position, target) ==
    [m \in 1..Len(Engine[position].moves) |->
        [Position |-> EncodedAfter[Engine[position].after[m]].value,
         Target |-> IF Engine[position].moves[m] = target THEN 1 ELSE 0]]

\* records of the current chunk that possible_moves returned for, and the one it
\* raised on
Returned(k) == k \in 1..Len(chunk_df)
Raised(k) == pc = "failed" /\ k = Len(chunk_df) + 1 /\ k <= Len(chunk)

Labelled(frame, v) == {m \in 1..Len(frame) : frame[m].Target = v}

\* the header lines and the data lines of the output
HeaderAt == {k \in 1..Len(outfile.lines) : outfile.lines[k].tag = "header"}
DataAt == {k \in 1..Len(outfile.lines) : outfile.lines[k].tag = "row"}

RECURSIVE RowsOfRecords(_)
\* the rows of the records' expansions, record after record
RowsOfRecords(records) ==
    IF records = <<>> THEN <<>>
    ELSE possible_moves(Head(records)).value \o RowsOfRecords(Tail(records))

RECURSIVE LegalMoveCount(_)
LegalMoveCount(records) ==
    IF records = <<>> THEN 0
    ELSE Len(Engine[Head(records).FEN].moves) + LegalMoveCount(Tail(records))

\* the lines of the rows, as out_cols orders the columns
LinesOf(rows) == CsvLines(rows, out_cols, FALSE)

\* the records of the first n chunks
FirstChunks(n) ==
    SubSeq(infile, 1, IF n * ChunkSize < Len(infile) THEN n * ChunkSize ELSE Len(infile))

\* ------------------------------------------------------------------------
\* Claims about make_converted_file and possible_moves
\* ------------------------------------------------------------------------

\* C1: once a batch has been written, and so when the run has finished, the
\* output holds the header row, naming the two output columns, exactly once, as
\* its first line; every other line is a data row. A finished run has written
\* at least one batch.
C1_HeaderOnceFirst ==
    /\ pc = "done" => i >= 1
    /\ i >= 1 =>
          /\ outfile.exists
          /\ HeaderAt = {1}
          /\ outfile.lines[1] = HeaderLine(out_cols)
          /\ Len(out_cols) = 2
          /\ DataAt = 2..Len(outfile.lines)

\* a run of several batches has finished, with rows after the header
C1_Witness ==
    /\ pc = "done" /\ i >= 2
    /\ Len(outfile.lines) >= 4

\* C2: after a run that finished, the data rows are the rows of the records'
\* expansions in input order, within and across batches, and their number is
\* the sum of the records' legal-move counts.
C2_RowsInOrder ==
    pc = "done" =>
        /\ SubSeq(outfile.lines, 2, Len(outfile.lines)) = LinesOf(RowsOfRecords(infile))
        /\ Cardinality(DataAt) = LegalMoveCount(infile)

\* a run finished whose last batch is shorter than the first and holds rows
C2_Witness ==
    /\ pc = "done" /\ i = 2 /\ Len(infile) = ChunkSize + 1
    /\ Len(possible_moves(infile[1]).value) > 0
    /\ Len(possible_moves(infile[Len(infile)]).value) > 0

\* the input file was made by puzzle_cleaning from puzzle_df
Cleaned == puzzle_df # <<>> /\ infile # puzzle_df
\* make_converted_file was called on the puzzle records themselves
Uncleaned == puzzle_df # <<>> /\ infile = puzzle_df /\ pc \notin {"start", "clean_failed"}

\* the position after the setup move, and the solution move, of a puzzle record
AdvancedFen(puzzle) ==
    LET moves == split(puzzle.Moves)
        m == CHOOSE m \in 1..Len(Engine[puzzle.FEN].moves) : Engine[puzzle.FEN].moves[m] = moves[1]
    IN  Engine[puzzle.FEN].after[m]
SolutionMove(puzzle) == split(puzzle.Moves)[2]

RECURSIVE RowsOfPuzzles(_)
\* the rows owed for puzzle records: each advanced, then expanded
RowsOfPuzzles(puzzles) ==
    IF puzzles = <<>> THEN <<>>
    ELSE ExpectedFrame(AdvancedFen(Head(puzzles)), SolutionMove(Head(puzzles)))
         \o RowsOfPuzzles(Tail(puzzles))

\* every puzzle record has a legal setup move and a second move
PuzzlesSound ==
    \A k \in 1..Len(puzzle_df) :
        /\ Len(split(puzzle_df[k].Moves)) >= 2
        /\ \E m \in 1..Len(Engine[puzzle_df[k].FEN].moves) :
              Engine[puzzle_df[k].FEN].moves[m] = split(puzzle_df[k].Moves)[1]

\* C3 as claimed: make_converted_file itself advances every puzzle record and
\* then expands it, so a run over sound puzzle records ends well with the rows
\* of the advanced positions labelled against moves[1].
C3_ConvertAdvances ==
    (Uncleaned /\ PuzzlesSound /\ pc \in {"done", "failed"}) =>
        /\ pc = "done"
        /\ SubSeq(outfile.lines, 2, Len(outfile.lines)) = LinesOf(RowsOfPuzzles(puzzle_df))

\* C3 as amended: make_converted_file runs possible_moves alone, on the FEN and
\* target_move columns of its input. Over the puzzle records themselves it
\* raises AttributeError at the first record and writes nothing. Over the file
\* puzzle_cleaning made of them, whose records hold the position after moves[0]
\* and moves[1], the rows written are those of the advanced positions, one per
\* legal reply, labelled against moves[1].
C3_ExpandsCleanedInput ==
    /\ Uncleaned =>
          /\ pc # "done" /\ i = 0
          /\ error \in {None, "AttributeError"}
          /\ pc = "failed" => (error = "AttributeError" /\ chunk_df = <<>>)
    /\ Cleaned =>
          /\ Len(infile) = Len(puzzle_df)
          /\ \A k \in 1..Len(infile) :
                /\ infile[k].FEN = AdvancedFen(puzzle_df[k])
                /\ infile[k].target_move = SolutionMove(puzzle_df[k])
          /\ pc = "done" =>
                SubSeq(outfile.lines, 2, Len(outfile.lines)) = LinesOf(RowsOfPuzzles(puzzle_df))

\* a run over a cleaned file finished with rows written
C3_Witness ==
    /\ Cleaned /\ pc = "done"
    /\ Cardinality(DataAt) >= 3

\* C4: for a position and a target that is legal from it, possible_moves returns
\* one row per legal move, the row of the target move labelled 1 and every other
\* row labelled 0.
C4_OneRowLabelled ==
    \A k \in 1..Len(chunk) :
        (HasColumns(chunk[k], {"FEN", "target_move"}) /\ IsPosition(chunk[k])
            /\ TargetIsLegal(chunk[k]) /\ (Returned(k) \/ Raised(k))) =>
            /\ Returned(k)
            /\ Len(chunk_df[k]) = Len(LegalUcis(chunk[k]))
            /\ Cardinality(Labelled(chunk_df[k], 1)) = 1
            /\ \A m \in 1..Len(chunk_df[k]) :
                  chunk_df[k][m].Target =
                      (IF LegalUcis(chunk[k])[m] = chunk[k].target_move THEN 1 ELSE 0)

\* the record whose target is the last of three legal replies was expanded
C4_Witness ==
    \E k \in 1..Len(chunk_df) :
        /\ chunk[k] = [FEN |-> KingsBlack, target_move |-> h8g7]
        /\ Labelled(chunk_df[k], 1) = {3}
        /\ Labelled(chunk_df[k], 0) = {1, 2}

\* C5 as claimed: for a position and any target that is not among its legal
\* moves, possible_moves raises nothing and returns one row per legal move, none
\* labelled 1.
C5_AnyTargetTolerated ==
    \A k \in 1..Len(chunk) :
        (HasColumns(chunk[k], {"FEN", "target_move"}) /\ IsPosition(chunk[k])
            /\ ~TargetIsLegal(chunk[k]) /\ (Returned(k) \/ Raised(k))) =>
            /\ Returned(k)
            /\ Len(chunk_df[k]) = Len(LegalUcis(chunk[k]))
            /\ Labelled(chunk_df[k], 1) = {}

\* C5 as amended: for a position and a target that is move notation but not
\* among its legal moves, possible_moves raises nothing and returns one row per
\* legal move, none labelled 1; a target that is no move notation makes it raise
\* ValueError as soon as the position has a legal move.
C5_WellFormedTargetTolerated ==
    \A k \in 1..Len(chunk) :
        (HasColumns(chunk[k], {"FEN", "target_move"}) /\ IsPosition(chunk[k])
            /\ ~TargetIsLegal(chunk[k]) /\ (Returned(k) \/ Raised(k))) =>
            IF IsMoveNotation(chunk[k].target_move)
            THEN /\ Returned(k)
                 /\ Len(chunk_df[k]) = Len(LegalUcis(chunk[k]))
                 /\ Labelled(chunk_df[k], 1) = {}
                 /\ Labelled(chunk_df[k], 0) = 1..Len(chunk_df[k])
            ELSE Len(LegalUcis(chunk[k])) > 0 => (Raised(k) /\ error = "ValueError")

\* a record whose target is a move of the other side was expanded into three rows
C5_Witness ==
    \E k \in 1..Len(chunk_df) :
        /\ chunk[k] = [FEN |-> KingsBlack, target_move |-> a1a2]
        /\ Len(chunk_df[k]) = 3

\* C6: for a position with no legal move and any target, possible_moves returns
\* no rows and raises nothing; the batch holding the record is written all the
\* same, the record adding no row to it.
C6_TerminalPositionEmpty ==
    /\ \A k \in 1..Len(chunk) :
          (HasColumns(chunk[k], {"FEN", "target_move"}) /\ IsPosition(chunk[k])
              /\ Len(LegalUcis(chunk[k])) = 0 /\ (Returned(k) \/ Raised(k))) =>
              (Returned(k) /\ chunk_df[k] = <<>>)
    /\ (pc = "read" /\ i >= 1) =>
          Cardinality(DataAt) = LegalMoveCount(FirstChunks(i))

\* a batch of stalemate records alone was written, its target no move notation
C6_Witness ==
    /\ pc = "read" /\ i >= 1
    /\ Len(chunk) = ChunkSize
    /\ \A k \in 1..Len(chunk) : chunk[k] = [FEN |-> Stalemate, target_move |-> BadUci]
    /\ Len(chunk_df) = Len(chunk)

\* C10: at every point of a run the output is what it was before the run, until
\* the first batch is written, and from then on the header followed by all rows
\* of the batches written so far, whole batches only. A record that raises ends
\* the run with that error: the batches before stay written, and no row of the
\* failing batch is, whatever records of it were expanded before.
C10_WholeBatchesOnly ==
    /\ i = 0 => outfile \in {NoFile, StaleFile}
    /\ i >= 1 =>
          outfile.lines = <<HeaderLine(out_cols)>> \o LinesOf(RowsOfRecords(FirstChunks(i)))
    /\ pc = "failed" =>
          /\ error # None
          /\ ~ENABLED Next

\* the second batch failed on its second record, after the first batch was written
C10_Witness ==
    /\ pc = "failed" /\ i = 1
    /\ Len(chunk_df) >= 1
    /\ Len(chunk_df[1]) > 0
    /\ Cardinality(DataAt) > 0

====
